---- MODULE Spec2Model ----
(***************************************************************************)
(* ResourceDecorator (src/backend/decorators/resource-decorator.ts).       *)
(*                                                                         *)
(* A decorator is built once from a resource and its options               *)
(* (constructor: decorateProperties, then decorateActions) and is then     *)
(* queried.  The state is the decorator's fields; Init is the state after  *)
(* construction; every query is one action that records its arguments and  *)
(* what it returned or threw.                                              *)
(*                                                                         *)
(* Representation                                                          *)
(*  - an optional value (a field that may be undefined) is a sequence of   *)
(*    length 0 (None) or 1 (Some(v));                                      *)
(*  - a JavaScript object used as a map is a sequence of [key, value]      *)
(*    records in the order of Object.keys/Object.values: the integer-like  *)
(*    keys first, in ascending numeric order, then the other keys in       *)
(*    insertion order;                                                     *)
(*  - reading obj[key] goes through the prototype chain: a key the object  *)
(*    does not own but Object.prototype has ('constructor', 'toString',    *)
(*    ...) yields the inherited member, which is truthy;                   *)
(*  - a property path is the tuple of its '.'-separated segments:          *)
(*    'address.city' is <<"address", "city">>, so key.match(/\./) is       *)
(*    Len(key) > 1;                                                        *)
(*  - a string may be empty, and the empty string is falsy;                *)
(*  - the key '__proto__' is not an ordinary key: obj['__proto__'] = v    *)
(*    sets the object's prototype and adds no key of its own.              *)
(***************************************************************************)
EXTENDS Integers, Sequences, FiniteSets, TLC

VARIABLES
    resource,     \* this._resource: the adapter's resource (read-only)
    options,      \* this.options
    properties,   \* this.properties: path -> PropertyDecorator, insertion-ordered
    actions,      \* this.actions: name -> ActionDecorator, insertion-ordered
    engine,       \* the Array.prototype.sort of the JavaScript engine the build runs on
    pc,           \* "ready": no query running; "returned": a query has completed
    call,         \* the last query and its arguments
    result,       \* what the last query returned or threw
    constructed,  \* history: options, properties and actions as the constructor left them
    journal       \* history: the first queries that completed, each with its outcome

vars == <<resource, options, properties, actions, engine, pc, call, result,
          constructed, journal>>

----------------------------------------------------------------------------
(* Bounds of the model and program constants *)

\* the number of descriptors of the resources that are enumerated along with
\* their options: more than the default column cap and more than the ten
\* elements up to which the earlier engine sorts by insertion
MaxDescriptors == 11
\* the number of descriptors of the wide resource: more than the 1000 elements
\* above which the earlier engine picks its pivot from a sample, and enough
\* for the later engine to merge runs
WideDescriptors == 1001
\* resources with 0..MaxSmallResource descriptors are all explored
MaxSmallResource == 2
\* the largest number of keys of an enumerated options.properties
MaxOptionProps == 2
\* the largest length of an enumerated per-context ordering override
MaxOverrideLen == 2
\* the largest number of keys of options.actions
MaxActionOptions == 2
\* the number of completed queries the journal keeps
MaxJournal == 2

DEFAULT_MAX_COLUMNS_IN_LIST == 8

----------------------------------------------------------------------------
(* Optional values, ordered maps, sequences *)

None == <<>>
Some(v) == <<v>>
IsSome(o) == Len(o) = 1
Val(o) == o[1]

\* a || b for an optional string: '' and undefined are falsy
Truthy(o) == IsSome(o) /\ Val(o) # ""

Min(a, b) == IF a < b THEN a ELSE b
Max(a, b) == IF a > b THEN a ELSE b

Keys(m) == [i \in 1..Len(m) |-> m[i].key]
Values(m) == [i \in 1..Len(m) |-> m[i].value]
KeySet(m) == {m[i].key : i \in 1..Len(m)}
\* k is an own key of m
Has(m, k) == \E i \in 1..Len(m) : m[i].key = k
IndexOf(m, k) == CHOOSE i \in 1..Len(m) : m[i].key = k
Get(m, k) == m[IndexOf(m, k)].value

\* the names every object inherits from Object.prototype
ObjectPrototypeMembers ==
    { "constructor", "hasOwnProperty", "isPrototypeOf", "propertyIsEnumerable",
      "toLocaleString", "toString", "valueOf", "__proto__",
      "__defineGetter__", "__defineSetter__", "__lookupGetter__", "__lookupSetter__" }

\* the member of Object.prototype of that name: a function (for '__proto__'
\* Object.prototype itself), which is truthy and is no decorator
Inherited(member) == [inherited |-> member]

\* m[k] for a map keyed by property paths: the own value, else the member
\* inherited from Object.prototype, else undefined
Lookup(m, k) ==
    IF Has(m, k) THEN Some(Get(m, k))
    ELSE IF Len(k) = 1 /\ k[1] \in ObjectPrototypeMembers THEN Some(Inherited(k[1]))
    ELSE None

\* An object lists its array-index keys first, in ascending numeric order, and
\* then its other string keys in insertion order.  An array index is the
\* canonical decimal numeral (no sign, no leading zero, digits only) of a
\* number from 0 to 2^32 - 2.
DecimalDigits == <<"0", "1", "2", "3", "4", "5", "6", "7", "8", "9">>

\* the greatest array index, as a numeral
MaxArrayIndex == "4294967294"

\* the value of the i-th character of s as a decimal digit, -1 when it is none
DigitAt(s, i) ==
    LET c == SubSeq(s, i, i)
    IN  IF \E d \in 1..Len(DecimalDigits) : DecimalDigits[d] = c
        THEN (CHOOSE d \in 1..Len(DecimalDigits) : DecimalDigits[d] = c) - 1
        ELSE -1

\* s is what String(n) gives for a natural number n
IsCanonicalNumeral(s) ==
    /\ Len(s) > 0
    /\ \A i \in 1..Len(s) : DigitAt(s, i) >= 0
    /\ Len(s) > 1 => DigitAt(s, 1) # 0

\* of two canonical numerals, s denotes the smaller number
NumeralLess(s, t) ==
    \/ Len(s) < Len(t)
    \/ /\ Len(s) = Len(t)
       /\ \E i \in 1..Len(s) :
             /\ SubSeq(s, 1, i - 1) = SubSeq(t, 1, i - 1)
             /\ DigitAt(s, i) < DigitAt(t, i)

IsArrayIndex(s) == IsCanonicalNumeral(s) /\ ~NumeralLess(MaxArrayIndex, s)

\* a property path as the string it stands for: its segments joined with '.'
RECURSIVE PathString(_)
PathString(path) ==
    IF path = <<>> THEN ""
    ELSE IF Len(path) = 1 THEN path[1]
    ELSE path[1] \o "." \o PathString(Tail(path))

\* the key as the string the object holds: the string of a property path,
\* an action name itself
KeyString(isPath, k) == IF isPath THEN PathString(k) ELSE k

IsIndexKey(isPath, k) == IsArrayIndex(KeyString(isPath, k))

\* both are array-index keys and k1 is the smaller
IndexKeyLess(isPath, k1, k2) ==
    /\ IsIndexKey(isPath, k1)
    /\ IsIndexKey(isPath, k2)
    /\ NumeralLess(KeyString(isPath, k1), KeyString(isPath, k2))

\* m[k] = v: an existing key keeps its place; a new array-index key goes
\* among the array-index keys, which come first in ascending order; any
\* other new key is appended
Insert(isPath, m, k, v) ==
    IF Has(m, k)
    THEN [i \in 1..Len(m) |-> IF m[i].key = k THEN [key |-> k, value |-> v] ELSE m[i]]
    ELSE IF IsIndexKey(isPath, k)
    THEN LET before == Cardinality({i \in 1..Len(m) : IndexKeyLess(isPath, m[i].key, k)})
         IN  SubSeq(m, 1, before) \o <<[key |-> k, value |-> v]>>
                 \o SubSeq(m, before + 1, Len(m))
    ELSE Append(m, [key |-> k, value |-> v])

\* properties[path] = decorator
Put(m, k, v) == Insert(TRUE, m, k, v)
\* actions[name] = action
PutAction(m, k, v) == Insert(FALSE, m, k, v)

\* m lists its keys as a JavaScript object does
RECURSIVE Rebuilt(_, _, _)
Rebuilt(isPath, m, acc) ==
    IF m = <<>> THEN acc
    ELSE Rebuilt(isPath, Tail(m), Insert(isPath, acc, Head(m).key, Head(m).value))

IsObjectOrder(isPath, m) == Rebuilt(isPath, m, <<>>) = m


\* Array.prototype.slice(0, n): the first n elements, and for a negative n
\* all but the last -n
Slice(s, n) ==
    IF n >= 0 THEN SubSeq(s, 1, Min(n, Len(s)))
    ELSE IF Len(s) + n > 0 THEN SubSeq(s, 1, Len(s) + n)
    ELSE <<>>
Range(s) == {s[i] : i \in 1..Len(s)}
IsInjective(s) == \A i, j \in 1..Len(s) : s[i] = s[j] => i = j

\* all sequences over S of length at most n
RECURSIVE SeqsUpTo(_, _)
SeqsUpTo(S, n) ==
    IF n = 0 THEN {<<>>}
    ELSE LET shorter == SeqsUpTo(S, n - 1)
         IN  shorter \cup {Append(s, x) : s \in shorter, x \in S}

----------------------------------------------------------------------------
(* Outcomes of a call *)

Return(v) == [status |-> "return", value |-> v]
Throw(e) == [status |-> "throw", error |-> e]
Returned(r) == r.status = "return"
Threw(r) == r.status = "throw"

\* new ConfigurationError(`there is no property by the name of '${propertyPath}'
\* in resource ${this.getResourceName()}`, 'tutorial-04-customizing-resources.html')
\* The message is kept as its template and the two values put into it.
ConfigurationError(propertyPath, resourceName) ==
    [name |-> "ConfigurationError",
     message |-> [template |-> "there is no property by the name of '{0}' in resource {1}",
                  propertyPath |-> propertyPath,
                  resourceName |-> resourceName],
     fnName |-> "tutorial-04-customizing-resources.html"]

\* reading a member of undefined, calling what is no function
TypeError == [name |-> "TypeError"]

----------------------------------------------------------------------------
(* PropertyDecorator and BaseProperty (collaborators of the resource       *)
(* decorator; only what the resource decorator calls)                      *)

PropertyPlace == {"list", "show", "edit", "filter"}

DEFAULT_POSITION == 100

\* new BaseProperty({ path, isSortable })
BaseProperty(path, isSortable) == [path |-> path, isSortable |-> isSortable]

\* new PropertyDecorator({ property, admin, options, resource })
PropertyDecorator(property, propertyOptions) ==
    [property |-> property, options |-> propertyOptions]

name(p) == p.property.path

\* options[field]; an options value without that field (a member inherited
\* from Object.prototype passed as the options) gives undefined
PropertyOption(p, field) ==
    IF IsSome(p.options) /\ field \in DOMAIN Val(p.options)
    THEN Val(p.options)[field]
    ELSE None

\* the position given in the options, else the default position
position(p) ==
    IF IsSome(PropertyOption(p, "position"))
    THEN Val(PropertyOption(p, "position"))
    ELSE DEFAULT_POSITION

\* visible in a place unless the options hide it there
isVisible(p, where) ==
    IF IsSome(PropertyOption(p, "isVisible"))
    THEN where \in Val(PropertyOption(p, "isVisible"))
    ELSE TRUE

isTitle(p) ==
    IF IsSome(PropertyOption(p, "isTitle"))
    THEN Val(PropertyOption(p, "isTitle"))
    ELSE FALSE

PropertyJSON(p) ==
    [name |-> name(p), position |-> position(p), isTitle |-> isTitle(p),
     isSortable |-> p.property.isSortable]

----------------------------------------------------------------------------
(* decorateProperties *)

\* one turn of resourceProperties.reduce((memo, property) =>
\*   ({ ...memo, [property.name()]: decorator }), {})
DecorateExistingStep(optionProperties, memo, property) ==
    Put(memo, property.path,
        PropertyDecorator(property, Lookup(optionProperties, property.path)))

\* the turns of the reduce for the descriptors from..to, in their order
RECURSIVE DecorateExisting(_, _, _, _, _)
DecorateExisting(resourceProperties, optionProperties, memo, from, to) ==
    IF from > to THEN memo
    ELSE IF from = to
    THEN DecorateExistingStep(optionProperties, memo, resourceProperties[from])
    ELSE CHOOSE after \in
            { DecorateExisting(resourceProperties, optionProperties, half,
                               from + (to - from + 1) \div 2, to) :
                half \in { DecorateExisting(resourceProperties, optionProperties, memo,
                                            from, from + (to - from + 1) \div 2 - 1) } } :
            TRUE

\* key.match(/\./)
HasDot(key) == Len(key) > 1

\* one turn of Object.keys(this.options.properties).forEach(key => {
\*   if (!properties[key] && !key.match(/\./))
\*     properties[key] = new PropertyDecorator(...) })
DecorateFromOptionsStep(optionProperties, memo, key) ==
    IF ~IsSome(Lookup(memo, key)) /\ ~HasDot(key)
    THEN Put(memo, key,
             PropertyDecorator(BaseProperty(key, FALSE), Lookup(optionProperties, key)))
    ELSE memo

\* the turns of the forEach for the keys from..to, in their order
RECURSIVE DecorateFromOptions(_, _, _, _, _)
DecorateFromOptions(keys, optionProperties, memo, from, to) ==
    IF from > to THEN memo
    ELSE IF from = to
    THEN DecorateFromOptionsStep(optionProperties, memo, keys[from])
    ELSE CHOOSE after \in
            { DecorateFromOptions(keys, optionProperties, half,
                                  from + (to - from + 1) \div 2, to) :
                half \in { DecorateFromOptions(keys, optionProperties, memo,
                                               from, from + (to - from + 1) \div 2 - 1) } } :
            TRUE

decorateProperties(res, opts) ==
    LET existing == DecorateExisting(res.properties, opts.properties, <<>>,
                                     1, Len(res.properties))
    IN  DecorateFromOptions(Keys(opts.properties), opts.properties, existing,
                            1, Len(opts.properties))

----------------------------------------------------------------------------
(* getResourceName, getPropertyByKey *)

\* this.options.name || this._resource.name()
getResourceName(self) ==
    IF Truthy(self.options.name) THEN Val(self.options.name) ELSE self.resource.name

\* const property = this.properties[propertyPath]; if (!property) throw ...
getPropertyByKey(self, propertyPath) ==
    LET property == Lookup(self.properties, propertyPath)
    IN  IF ~IsSome(property)
        THEN Throw(ConfigurationError(propertyPath, getResourceName(self)))
        ELSE Return(Val(property))

----------------------------------------------------------------------------
(* Array.prototype.sort.  The comparator of getProperties never returns 0:   *)
(* two keys of equal position compare as "less" both ways, so it is not a     *)
(* consistent comparator and the language leaves the order of the result to   *)
(* the engine.  The engines a build of this program runs on are the two sorts *)
(* of V8: TimSort (third_party/v8/builtins/array-sort.tq, node 11 and later)  *)
(* and the earlier sort (src/js/array.js, node 10 and before): an insertion   *)
(* sort for at most 10 elements and a quicksort above.  The engine is chosen  *)
(* when the program is started and stays.                                     *)
(*                                                                            *)
(* Both sorts work on the array in place with indexes from 0.  A loop of the  *)
(* engine is a step on the loop's variables and a run of that step: a run of  *)
(* at most n steps is a run of at most n \div 2 steps followed by a run of    *)
(* the rest, and the singleton set binds the value the first half left.       *)

Engines == {"TimSort", "QuickSort"}

\* variant: the comparison is turned around
comparePosition_Reversed(positions, key1, key2) ==
    IF positions[key1] < positions[key2] THEN 1 ELSE -1

\* properties[key].position() of every key of the array that is sorted; the
\* properties are not assigned while the sort runs
Positions(props, keys) == [key \in Range(keys) |-> position(Get(props, key))]

\* (key1, key2) => properties[key1].position() > properties[key2].position() ? 1 : -1
comparePosition(positions, key1, key2) ==
    IF positions[key1] > positions[key2] THEN 1 ELSE -1

At(a, i) == a[i + 1]
Set(a, i, v) == [a EXCEPT ![i + 1] = v]

\* Copy(source, srcPos, target, dstPos, length): target[dstPos + k] =
\* source[srcPos + k] for k < length, the source read before it is written
Copy(source, srcPos, target, dstPos, length) ==
    [i \in 1..Len(target) |->
        IF i - 1 >= dstPos /\ i - 1 < dstPos + length
        THEN source[i - dstPos + srcPos]
        ELSE target[i]]

(* ---- TimSort (array-sort.tq) ---- *)

\* a run wins this many times in a row before the merge gallops
kMinGallopWins == 7

\* while (n >= 64) { r = r | (n & 1); n = n >> 1 } return n + r
\* (ComputeMinRunLength, with the r of the loop as a parameter that starts at 0)
RECURSIVE ComputeMinRunLength(_, _)
ComputeMinRunLength(n, r) ==
    IF n >= 64 THEN ComputeMinRunLength(n \div 2, IF n % 2 = 1 THEN 1 ELSE r)
    ELSE n + r

\* ReverseRange(array, from, to): a[from .. to-1] turned around
ReverseRange(a, from, to) ==
    [i \in 1..Len(a) |->
        IF i - 1 >= from /\ i - 1 < to THEN a[from + to - i + 1] ELSE a[i]]

\* the index at which the run that starts at a[low - 1] ends: the first idx
\* from low + 1 on whose element breaks the run (order >= 0 in a strictly
\* descending run, order < 0 in a non-descending one), else high
RunEnd(positions, a, low, high, isDescending) ==
    LET breaks == { idx \in (low + 1)..(high - 1) :
                      LET order == comparePosition(positions, At(a, idx), At(a, idx - 1))
                      IN  IF isDescending THEN order >= 0 ELSE order < 0 }
    IN  IF breaks = {} THEN high
        ELSE CHOOSE idx \in breaks : \A other \in breaks : idx <= other

\* CountAndMakeRun(lowArg, high): the length of the run that starts at lowArg;
\* a strictly descending run is turned around in place
CountAndMakeRun(positions, a, lowArg, high) ==
    IF lowArg + 1 = high THEN [a |-> a, length |-> 1]
    ELSE LET low == lowArg + 1
             isDescending == comparePosition(positions, At(a, low), At(a, low - 1)) < 0
             end == RunEnd(positions, a, low, high, isDescending)
         IN  [a |-> IF isDescending THEN ReverseRange(a, lowArg, end) ELSE a,
              length |-> end - lowArg]

\* the insertion point of pivot in the sorted a[left .. right-1]:
\* while (left < right) { mid = left + ((right - left) >> 1);
\*   if (order(pivot, a[mid]) < 0) right = mid; else left = mid + 1 }
RECURSIVE BinarySearch(_, _, _, _, _)
BinarySearch(positions, a, pivot, left, right) ==
    IF left >= right THEN left
    ELSE LET mid == left + ((right - left) \div 2)
         IN  IF comparePosition(positions, pivot, At(a, mid)) < 0
             THEN BinarySearch(positions, a, pivot, left, mid)
             ELSE BinarySearch(positions, a, pivot, mid + 1, right)

\* for (p = start; p > left; --p) a[p] = a[p - 1];  a[left] = pivot
InsertAt(a, start, left) ==
    [i \in 1..Len(a) |->
        IF i - 1 = left THEN At(a, start)
        ELSE IF i - 1 > left /\ i - 1 <= start THEN a[i - 1]
        ELSE a[i]]

\* one turn of for (; start < high; ++start): a[start] is put into the sorted
\* a[low .. start-1]
BinaryInsertionStep(positions, st) ==
    LET left == BinarySearch(positions, st.a, At(st.a, st.start), st.low, st.start)
    IN  [st EXCEPT !.a = InsertAt(st.a, st.start, left), !.start = st.start + 1]

RECURSIVE BinaryInsertionRun(_, _, _)
BinaryInsertionRun(positions, st, n) ==
    IF st.start >= st.high THEN st
    ELSE IF n <= 1 THEN BinaryInsertionStep(positions, st)
    ELSE CHOOSE after \in
             { BinaryInsertionRun(positions, mid, n - (n \div 2)) :
                 mid \in { BinaryInsertionRun(positions, st, n \div 2) } } : TRUE

\* BinaryInsertionSort(low, startArg, high): a[low .. startArg-1] is sorted
BinaryInsertionSort(positions, a, low, startArg, high) ==
    LET start == IF low = startArg THEN startArg + 1 ELSE startArg
    IN  BinaryInsertionRun(positions, [a |-> a, low |-> low, start |-> start, high |-> high],
                           high - start).a

\* the comparison of a gallop: GallopLeft asks order(array[index], key),
\* GallopRight asks order(key, array[index])
GallopOrder(positions, array, key, index, keyFirst) ==
    IF keyFirst THEN comparePosition(positions, key, At(array, index))
    ELSE comparePosition(positions, At(array, index), key)

\* while (offset < maxOfs) { order = ...array[origin + step * offset]...;
\*   if (the stop test holds) break; lastOfs = offset; offset = (offset << 1) + 1 }
\* The stop test is order >= 0 (stopNotLess) or order < 0.
RECURSIVE GallopOffsets(_, _, _, _, _, _, _, _, _)
GallopOffsets(positions, array, key, keyFirst, origin, step, stopNotLess, maxOfs, ofs) ==
    IF ofs.offset >= maxOfs THEN ofs
    ELSE IF (GallopOrder(positions, array, key, origin + step * ofs.offset, keyFirst) >= 0)
                = stopNotLess
         THEN ofs
         ELSE GallopOffsets(positions, array, key, keyFirst, origin, step, stopNotLess,
                                maxOfs,
                                [lastOfs |-> ofs.offset, offset |-> 2 * ofs.offset + 1])

\* while (lastOfs < offset) { m = lastOfs + ((offset - lastOfs) >> 1); ... }
\* GallopLeft:  if (order(array[base + m], key) < 0) lastOfs = m + 1; else offset = m
\* GallopRight: if (order(key, array[base + m]) < 0) offset = m; else lastOfs = m + 1
RECURSIVE GallopSearch(_, _, _, _, _, _, _)
GallopSearch(positions, array, key, keyFirst, base, lastOfs, offset) ==
    IF lastOfs >= offset THEN offset
    ELSE LET m == lastOfs + ((offset - lastOfs) \div 2)
             less == GallopOrder(positions, array, key, base + m, keyFirst) < 0
         IN  IF less = keyFirst
             THEN GallopSearch(positions, array, key, keyFirst, base, lastOfs, m)
             ELSE GallopSearch(positions, array, key, keyFirst, base, m + 1, offset)

\* GallopLeft(array, key, base, length, hint): the offset k in 0..length with
\* array[base + k - 1] < key <= array[base + k], the leftmost place for key
GallopLeft(positions, array, key, base, length, hint) ==
    IF GallopOrder(positions, array, key, base + hint, FALSE) < 0
    THEN CHOOSE k \in
             { GallopSearch(positions, array, key, FALSE, base,
                            ofs.lastOfs + hint + 1, Min(ofs.offset, length - hint) + hint) :
                 ofs \in { GallopOffsets(positions, array, key, FALSE, base + hint, 1, TRUE,
                                         length - hint, [lastOfs |-> 0, offset |-> 1]) } } : TRUE
    ELSE CHOOSE k \in
             { GallopSearch(positions, array, key, FALSE, base,
                            hint - Min(ofs.offset, hint + 1) + 1, hint - ofs.lastOfs) :
                 ofs \in { GallopOffsets(positions, array, key, FALSE, base + hint, -1, FALSE,
                                         hint + 1, [lastOfs |-> 0, offset |-> 1]) } } : TRUE

\* GallopRight(array, key, base, length, hint): the offset k in 0..length with
\* array[base + k - 1] <= key < array[base + k], the rightmost place for key
GallopRight(positions, array, key, base, length, hint) ==
    IF GallopOrder(positions, array, key, base + hint, TRUE) < 0
    THEN CHOOSE k \in
             { GallopSearch(positions, array, key, TRUE, base,
                            hint - Min(ofs.offset, hint + 1) + 1, hint - ofs.lastOfs) :
                 ofs \in { GallopOffsets(positions, array, key, TRUE, base + hint, -1, TRUE,
                                         hint + 1, [lastOfs |-> 0, offset |-> 1]) } } : TRUE
    ELSE CHOOSE k \in
             { GallopSearch(positions, array, key, TRUE, base,
                            ofs.lastOfs + hint + 1, Min(ofs.offset, length - hint) + hint) :
                 ofs \in { GallopOffsets(positions, array, key, TRUE, base + hint, 1, FALSE,
                                         length - hint, [lastOfs |-> 0, offset |-> 1]) } } : TRUE

(* A merge is a walk over the places of MergeLow and MergeHigh:              *)
(*   "pairs"   the loop that takes one element at a time and counts wins,    *)
(*   "break"   the place after it (++minGallop; firstIteration = true),       *)
(*   "while"   the test of the galloping loop,                               *)
(*   "gallopA", "takeB", "gallopB", "takeA" (MergeLow) and                   *)
(*   "gallopA", "takeB", "gallopB", "takeA" in the order MergeHigh has them, *)
(*   "Succeed", "CopyB", "CopyA"  the labels the merge ends at.              *)
(* m.a is the work array, m.temp the temporary array, m.cursor the cursor    *)
(* into the work array, m.minGallop the local and m.stored the minGallop of  *)
(* the sort state.                                                           *)

\* workArray[dest++] = workArray[cursorB++]; --lengthB
LowTakeB(m) ==
    [m EXCEPT !.a = Set(m.a, m.dest, At(m.a, m.cursor)),
              !.dest = @ + 1, !.cursor = @ + 1, !.lengthB = @ - 1]

\* workArray[dest++] = tempArray[cursorTemp++]; --lengthA
LowTakeTemp(m) ==
    [m EXCEPT !.a = Set(m.a, m.dest, At(m.temp, m.cursorTemp)),
              !.dest = @ + 1, !.cursorTemp = @ + 1, !.lengthA = @ - 1]

\* the galloping loop's test and what follows it either way
MergeWhile(m) ==
    IF m.nofWinsA >= kMinGallopWins \/ m.nofWinsB >= kMinGallopWins \/ m.firstIteration
    THEN [m EXCEPT !.firstIteration = FALSE,
                   !.minGallop = Max(1, m.minGallop - 1),
                   !.stored = Max(1, m.minGallop - 1),
                   !.at = "gallopA"]
    ELSE [m EXCEPT !.minGallop = m.minGallop + 1,
                   !.stored = m.minGallop + 1,
                   !.nofWinsA = 0, !.nofWinsB = 0,
                   !.at = "pairs"]

MergeLowStep(positions, m) ==
    CASE m.at = "pairs" ->
            IF comparePosition(positions, At(m.a, m.cursor), At(m.temp, m.cursorTemp)) < 0
            THEN [LowTakeB(m) EXCEPT
                     !.nofWinsB = m.nofWinsB + 1, !.nofWinsA = 0,
                     !.at = IF m.lengthB - 1 = 0 THEN "Succeed"
                            ELSE IF m.nofWinsB + 1 >= m.minGallop THEN "break"
                            ELSE "pairs"]
            ELSE [LowTakeTemp(m) EXCEPT
                     !.nofWinsA = m.nofWinsA + 1, !.nofWinsB = 0,
                     !.at = IF m.lengthA - 1 = 1 THEN "CopyB"
                            ELSE IF m.nofWinsA + 1 >= m.minGallop THEN "break"
                            ELSE "pairs"]
      [] m.at = "break" ->
            [m EXCEPT !.minGallop = m.minGallop + 1, !.firstIteration = TRUE,
                      !.at = "while"]
      [] m.at = "while" -> MergeWhile(m)
      [] m.at = "gallopA" ->
            CHOOSE next \in
                { IF nofWinsA > 0
                  THEN [m EXCEPT !.a = Copy(m.temp, m.cursorTemp, m.a, m.dest, nofWinsA),
                                 !.dest = @ + nofWinsA,
                                 !.cursorTemp = @ + nofWinsA,
                                 !.lengthA = @ - nofWinsA,
                                 !.nofWinsA = nofWinsA,
                                 !.at = IF m.lengthA - nofWinsA = 1 THEN "CopyB"
                                        ELSE IF m.lengthA - nofWinsA = 0 THEN "Succeed"
                                        ELSE "takeB"]
                  ELSE [m EXCEPT !.nofWinsA = 0, !.at = "takeB"] :
                    nofWinsA \in { GallopRight(positions, m.temp, At(m.a, m.cursor),
                                               m.cursorTemp, m.lengthA, 0) } } : TRUE
      [] m.at = "takeB" ->
            [LowTakeB(m) EXCEPT !.at = IF m.lengthB - 1 = 0 THEN "Succeed" ELSE "gallopB"]
      [] m.at = "gallopB" ->
            CHOOSE next \in
                { IF nofWinsB > 0
                  THEN [m EXCEPT !.a = Copy(m.a, m.cursor, m.a, m.dest, nofWinsB),
                                 !.dest = @ + nofWinsB,
                                 !.cursor = @ + nofWinsB,
                                 !.lengthB = @ - nofWinsB,
                                 !.nofWinsB = nofWinsB,
                                 !.at = IF m.lengthB - nofWinsB = 0 THEN "Succeed"
                                        ELSE "takeA"]
                  ELSE [m EXCEPT !.nofWinsB = 0, !.at = "takeA"] :
                    nofWinsB \in { GallopLeft(positions, m.a, At(m.temp, m.cursorTemp),
                                              m.cursor, m.lengthB, 0) } } : TRUE
      [] m.at = "takeA" ->
            [LowTakeTemp(m) EXCEPT !.at = IF m.lengthA - 1 = 1 THEN "CopyB" ELSE "while"]

MergeEnded(m) == m.at \in {"Succeed", "CopyB", "CopyA"}

RECURSIVE MergeLowRun(_, _, _)
MergeLowRun(positions, m, n) ==
    IF MergeEnded(m) THEN m
    ELSE IF n <= 1 THEN MergeLowStep(positions, m)
    ELSE CHOOSE after \in
             { MergeLowRun(positions, mid, n - (n \div 2)) :
                 mid \in { MergeLowRun(positions, m, n \div 2) } } : TRUE

\* label Succeed: if (lengthA > 0) Copy(tempArray, cursorTemp, workArray, dest, lengthA)
\* label CopyB: Copy(workArray, cursorB, workArray, dest, lengthB);
\*              workArray[dest + lengthB] = tempArray[cursorTemp]
MergeLowEnd(m) ==
    IF m.at = "Succeed"
    THEN IF m.lengthA > 0 THEN Copy(m.temp, m.cursorTemp, m.a, m.dest, m.lengthA)
         ELSE m.a
    ELSE Set(Copy(m.a, m.cursor, m.a, m.dest, m.lengthB),
             m.dest + m.lengthB, At(m.temp, m.cursorTemp))

\* MergeLow(baseA, lengthA, baseB, lengthB), for lengthA <= lengthB: run A is
\* copied to the temporary array and the runs are merged from the left
MergeLow(positions, sortState, baseA, lengthAArg, baseB, lengthBArg) ==
    LET a == sortState.workArray
        start == [a |-> Set(a, baseA, At(a, baseB)),
                  temp |-> SubSeq(a, baseA + 1, baseA + lengthAArg),
                  dest |-> baseA + 1,
                  cursorTemp |-> 0,
                  cursor |-> baseB + 1,
                  baseA |-> baseA,
                  lengthA |-> lengthAArg,
                  lengthB |-> lengthBArg - 1,
                  minGallop |-> sortState.minGallop,
                  stored |-> sortState.minGallop,
                  nofWinsA |-> 0, nofWinsB |-> 0,
                  firstIteration |-> FALSE,
                  at |-> IF lengthBArg - 1 = 0 THEN "Succeed"
                         ELSE IF lengthAArg = 1 THEN "CopyB"
                         ELSE "pairs"]
    IN  CHOOSE merged \in
            { [sortState EXCEPT !.workArray = MergeLowEnd(m), !.minGallop = m.stored] :
                m \in { MergeLowRun(positions, start, 8 * (lengthAArg + lengthBArg)) } } : TRUE

\* workArray[dest--] = workArray[cursorA--]; --lengthA
HighTakeA(m) ==
    [m EXCEPT !.a = Set(m.a, m.dest, At(m.a, m.cursor)),
              !.dest = @ - 1, !.cursor = @ - 1, !.lengthA = @ - 1]

\* workArray[dest--] = tempArray[cursorTemp--]; --lengthB
HighTakeTemp(m) ==
    [m EXCEPT !.a = Set(m.a, m.dest, At(m.temp, m.cursorTemp)),
              !.dest = @ - 1, !.cursorTemp = @ - 1, !.lengthB = @ - 1]

MergeHighStep(positions, m) ==
    CASE m.at = "pairs" ->
            IF comparePosition(positions, At(m.temp, m.cursorTemp), At(m.a, m.cursor)) < 0
            THEN [HighTakeA(m) EXCEPT
                     !.nofWinsA = m.nofWinsA + 1, !.nofWinsB = 0,
                     !.at = IF m.lengthA - 1 = 0 THEN "Succeed"
                            ELSE IF m.nofWinsA + 1 >= m.minGallop THEN "break"
                            ELSE "pairs"]
            ELSE [HighTakeTemp(m) EXCEPT
                     !.nofWinsB = m.nofWinsB + 1, !.nofWinsA = 0,
                     !.at = IF m.lengthB - 1 = 1 THEN "CopyA"
                            ELSE IF m.nofWinsB + 1 >= m.minGallop THEN "break"
                            ELSE "pairs"]
      [] m.at = "break" ->
            [m EXCEPT !.minGallop = m.minGallop + 1, !.firstIteration = TRUE,
                      !.at = "while"]
      [] m.at = "while" -> MergeWhile(m)
      [] m.at = "gallopA" ->
            CHOOSE next \in
                { IF nofWinsA > 0
                  THEN [m EXCEPT !.a = Copy(m.a, m.cursor - nofWinsA + 1,
                                            m.a, m.dest - nofWinsA + 1, nofWinsA),
                                 !.dest = @ - nofWinsA,
                                 !.cursor = @ - nofWinsA,
                                 !.lengthA = @ - nofWinsA,
                                 !.nofWinsA = nofWinsA,
                                 !.at = IF m.lengthA - nofWinsA = 0 THEN "Succeed"
                                        ELSE "takeB"]
                  ELSE [m EXCEPT !.nofWinsA = 0, !.at = "takeB"] :
                    nofWinsA \in { m.lengthA - GallopRight(positions, m.a,
                                                           At(m.temp, m.cursorTemp),
                                                           m.baseA, m.lengthA,
                                                           m.lengthA - 1) } } : TRUE
      [] m.at = "takeB" ->
            [HighTakeTemp(m) EXCEPT !.at = IF m.lengthB - 1 = 1 THEN "CopyA" ELSE "gallopB"]
      [] m.at = "gallopB" ->
            CHOOSE next \in
                { IF nofWinsB > 0
                  THEN [m EXCEPT !.a = Copy(m.temp, m.cursorTemp - nofWinsB + 1,
                                            m.a, m.dest - nofWinsB + 1, nofWinsB),
                                 !.dest = @ - nofWinsB,
                                 !.cursorTemp = @ - nofWinsB,
                                 !.lengthB = @ - nofWinsB,
                                 !.nofWinsB = nofWinsB,
                                 !.at = IF m.lengthB - nofWinsB = 1 THEN "CopyA"
                                        ELSE IF m.lengthB - nofWinsB = 0 THEN "Succeed"
                                        ELSE "takeA"]
                  ELSE [m EXCEPT !.nofWinsB = 0, !.at = "takeA"] :
                    nofWinsB \in { m.lengthB - GallopLeft(positions, m.temp,
                                                          At(m.a, m.cursor),
                                                          0, m.lengthB,
                                                          m.lengthB - 1) } } : TRUE
      [] m.at = "takeA" ->
            [HighTakeA(m) EXCEPT !.at = IF m.lengthA - 1 = 0 THEN "Succeed" ELSE "while"]

RECURSIVE MergeHighRun(_, _, _)
MergeHighRun(positions, m, n) ==
    IF MergeEnded(m) THEN m
    ELSE IF n <= 1 THEN MergeHighStep(positions, m)
    ELSE CHOOSE after \in
             { MergeHighRun(positions, mid, n - (n \div 2)) :
                 mid \in { MergeHighRun(positions, m, n \div 2) } } : TRUE

\* label Succeed: if (lengthB > 0) Copy(tempArray, 0, workArray, dest - (lengthB - 1), lengthB)
\* label CopyA: dest -= lengthA; cursorA -= lengthA;
\*              Copy(workArray, cursorA + 1, workArray, dest + 1, lengthA);
\*              workArray[dest] = tempArray[cursorTemp]
MergeHighEnd(m) ==
    IF m.at = "Succeed"
    THEN IF m.lengthB > 0 THEN Copy(m.temp, 0, m.a, m.dest - (m.lengthB - 1), m.lengthB)
         ELSE m.a
    ELSE Set(Copy(m.a, m.cursor - m.lengthA + 1, m.a, m.dest - m.lengthA + 1, m.lengthA),
             m.dest - m.lengthA, At(m.temp, m.cursorTemp))

\* MergeHigh(baseA, lengthA, baseB, lengthB), for lengthA > lengthB: run B is
\* copied to the temporary array and the runs are merged from the right
MergeHigh(positions, sortState, baseA, lengthAArg, baseB, lengthBArg) ==
    LET a == sortState.workArray
        start == [a |-> Set(a, baseB + lengthBArg - 1, At(a, baseA + lengthAArg - 1)),
                  temp |-> SubSeq(a, baseB + 1, baseB + lengthBArg),
                  dest |-> baseB + lengthBArg - 2,
                  cursorTemp |-> lengthBArg - 1,
                  cursor |-> baseA + lengthAArg - 2,
                  baseA |-> baseA,
                  lengthA |-> lengthAArg - 1,
                  lengthB |-> lengthBArg,
                  minGallop |-> sortState.minGallop,
                  stored |-> sortState.minGallop,
                  nofWinsA |-> 0, nofWinsB |-> 0,
                  firstIteration |-> FALSE,
                  at |-> IF lengthAArg - 1 = 0 THEN "Succeed"
                         ELSE IF lengthBArg = 1 THEN "CopyA"
                         ELSE "pairs"]
    IN  CHOOSE merged \in
            { [sortState EXCEPT !.workArray = MergeHighEnd(m), !.minGallop = m.stored] :
                m \in { MergeHighRun(positions, start, 8 * (lengthAArg + lengthBArg)) } } : TRUE

\* the pending runs are a stack of [base, length]; run i counts from 0
RunBase(sortState, i) == sortState.pendingRuns[i + 1].base
RunLengthAt(sortState, i) == sortState.pendingRuns[i + 1].length

\* PushRun(base, length)
PushRun(sortState, base, length) ==
    [sortState EXCEPT !.pendingRuns = Append(@, [base |-> base, length |-> length])]

\* the runs i and i + 1 of the stack become one run
MergedRuns(runs, i) ==
    LET joined == [runs EXCEPT ![i + 1] = [base |-> runs[i + 1].base,
                                           length |-> runs[i + 1].length
                                                        + runs[i + 2].length]]
        moved == IF i = Len(runs) - 3 THEN [joined EXCEPT ![i + 2] = runs[i + 3]]
                 ELSE joined
    IN  SubSeq(moved, 1, Len(runs) - 1)

\* MergeAt(i): the elements of run A that are already in place and the
\* elements of run B that are already in place are left where they are
MergeAt(positions, sortState, i) ==
    CHOOSE merged \in
        { IF m.lengthA = 0 \/ m.lengthB = 0 THEN m.sortState
          ELSE IF m.lengthA <= m.lengthB
          THEN MergeLow(positions, m.sortState, m.baseA, m.lengthA, m.baseB, m.lengthB)
          ELSE MergeHigh(positions, m.sortState, m.baseA, m.lengthA, m.baseB, m.lengthB) :
            m \in { [sortState |-> [sortState EXCEPT !.pendingRuns = MergedRuns(@, i)],
                     baseA |-> RunBase(sortState, i) + k,
                     lengthA |-> RunLengthAt(sortState, i) - k,
                     baseB |-> RunBase(sortState, i + 1),
                     lengthB |-> IF RunLengthAt(sortState, i) - k = 0 THEN 0
                                 ELSE GallopLeft(positions, sortState.workArray,
                                                 At(sortState.workArray,
                                                    RunBase(sortState, i)
                                                        + RunLengthAt(sortState, i) - 1),
                                                 RunBase(sortState, i + 1),
                                                 RunLengthAt(sortState, i + 1),
                                                 RunLengthAt(sortState, i + 1) - 1)] :
                       k \in { GallopRight(positions, sortState.workArray,
                                           At(sortState.workArray, RunBase(sortState, i + 1)),
                                           RunBase(sortState, i), RunLengthAt(sortState, i),
                                           0) } } } : TRUE

\* RunInvariantEstablished(pendingRuns, n)
RunInvariantEstablished(sortState, n) ==
    IF n < 2 THEN TRUE
    ELSE RunLengthAt(sortState, n - 2)
             > RunLengthAt(sortState, n - 1) + RunLengthAt(sortState, n)

\* MergeCollapse: runs are merged until the lengths of the stack grow fast
\* enough from the top down
\* the run MergeCollapse merges next, None when it breaks out of its loop
RunToCollapse(sortState, n) ==
    IF ~RunInvariantEstablished(sortState, n + 1) \/ ~RunInvariantEstablished(sortState, n)
    THEN IF RunLengthAt(sortState, n - 1) < RunLengthAt(sortState, n + 1)
         THEN Some(n - 1) ELSE Some(n)
    ELSE IF RunLengthAt(sortState, n) <= RunLengthAt(sortState, n + 1) THEN Some(n)
    ELSE None

RECURSIVE MergeCollapse(_, _)
MergeCollapse(positions, sortState) ==
    IF Len(sortState.pendingRuns) <= 1 THEN sortState
    ELSE IF ~IsSome(RunToCollapse(sortState, Len(sortState.pendingRuns) - 2)) THEN sortState
    ELSE CHOOSE collapsed \in
             { MergeCollapse(positions, merged) :
                 merged \in { MergeAt(positions, sortState,
                                      Val(RunToCollapse(sortState,
                                                        Len(sortState.pendingRuns) - 2))) } } : TRUE

\* MergeForceCollapse: all runs are merged
RECURSIVE MergeForceCollapse(_, _)
MergeForceCollapse(positions, sortState) ==
    IF Len(sortState.pendingRuns) <= 1 THEN sortState
    ELSE LET n == Len(sortState.pendingRuns) - 2
         IN  CHOOSE collapsed \in
                 { MergeForceCollapse(positions, merged) :
                     merged \in { MergeAt(positions, sortState,
                                          IF n > 0 /\ RunLengthAt(sortState, n - 1)
                                                          < RunLengthAt(sortState, n + 1)
                                          THEN n - 1 ELSE n) } } : TRUE

\* the run found at low, extended to the minimal run length by a binary
\* insertion sort when it is shorter
NextRun(positions, a, low, remaining, minRunLength) ==
    CHOOSE next \in
        { IF run.length < minRunLength
          THEN [a |-> BinaryInsertionSort(positions, run.a, low, low + run.length,
                                          low + Min(minRunLength, remaining)),
                length |-> Min(minRunLength, remaining)]
          ELSE run :
            run \in { CountAndMakeRun(positions, a, low, low + remaining) } } : TRUE

\* one turn of while (remaining != 0): the next run is made, pushed and
\* merged with the runs before it as far as MergeCollapse goes
TimSortStep(positions, st) ==
    CHOOSE after \in
        { [sortState |-> MergeCollapse(positions,
                             PushRun([st.sortState EXCEPT !.workArray = run.a],
                                     st.low, run.length)),
           low |-> st.low + run.length,
           remaining |-> st.remaining - run.length,
           minRunLength |-> st.minRunLength] :
            run \in { NextRun(positions, st.sortState.workArray, st.low, st.remaining,
                              st.minRunLength) } } : TRUE

RECURSIVE TimSortRun(_, _, _)
TimSortRun(positions, st, n) ==
    IF st.remaining = 0 THEN st
    ELSE IF n <= 1 THEN TimSortStep(positions, st)
    ELSE CHOOSE after \in
             { TimSortRun(positions, mid, n - (n \div 2)) :
                 mid \in { TimSortRun(positions, st, n \div 2) } } : TRUE

\* ArrayTimSortImpl
TimSort(positions, keys) ==
    IF Len(keys) < 2 THEN keys
    ELSE LET start == [sortState |-> [workArray |-> keys,
                                      minGallop |-> kMinGallopWins,
                                      pendingRuns |-> <<>>],
                       low |-> 0,
                       remaining |-> Len(keys),
                       minRunLength |-> ComputeMinRunLength(Len(keys), 0)]
         IN  CHOOSE sorted \in
                 { MergeForceCollapse(positions, st.sortState).workArray :
                     st \in { TimSortRun(positions, start, Len(keys)) } } : TRUE

(* ---- the earlier sort (array.js) ---- *)

\* for (j = i - 1; j >= from; j--) { if (order(a[j], element) > 0) a[j + 1] = a[j];
\*   else break }  a[j + 1] = element
RECURSIVE InsertionShift(_, _, _, _, _)
InsertionShift(positions, a, element, j, from) ==
    IF j >= from /\ comparePosition(positions, At(a, j), element) > 0
    THEN InsertionShift(positions, Set(a, j + 1, At(a, j)), element, j - 1, from)
    ELSE Set(a, j + 1, element)

\* for (i = from + 1; i < to; i++) insert a[i] into the sorted a[from .. i-1]
RECURSIVE InsertionSort(_, _, _, _, _)
InsertionSort(positions, a, i, from, to) ==
    IF i >= to THEN a
    ELSE CHOOSE sorted \in
             { InsertionSort(positions, next, i + 1, from, to) :
                 next \in { InsertionShift(positions, a, At(a, i), i - 1, from) } } : TRUE

\* one turn of do { high_start--; if (high_start == i) break partition;
\*                  order = comparefn(a[high_start], pivot) } while (order > 0)
ScanDownStep(positions, a, pivot, i, down) ==
    IF down.high_start - 1 = i
    THEN [high_start |-> down.high_start - 1, order |-> 0, broke |-> TRUE, ended |-> TRUE]
    ELSE LET order == comparePosition(positions, At(a, down.high_start - 1), pivot)
         IN  [high_start |-> down.high_start - 1, order |-> order, broke |-> FALSE,
              ended |-> ~(order > 0)]

RECURSIVE ScanDownRun(_, _, _, _, _, _)
ScanDownRun(positions, a, pivot, i, down, n) ==
    IF down.ended THEN down
    ELSE IF n <= 1 THEN ScanDownStep(positions, a, pivot, i, down)
    ELSE CHOOSE after \in
             { ScanDownRun(positions, a, pivot, i, mid, n - (n \div 2)) :
                 mid \in { ScanDownRun(positions, a, pivot, i, down, n \div 2) } } : TRUE

ScanDown(positions, a, pivot, high_start, i) ==
    ScanDownRun(positions, a, pivot, i,
                [high_start |-> high_start, order |-> 0, broke |-> FALSE, ended |-> FALSE],
                high_start - i)

\* a[i] = a[j]; a[j] = element
Swap(a, i, j, element) == Set(Set(a, i, At(a, j)), j, element)

\* order > 0: the element goes to the upper part, in exchange for the element
\* the scan from above stopped at; when the scan reaches i the loop is left
\* (high_start = i)
PartitionAbove(st, down) ==
    IF down.broke
    THEN [st EXCEPT !.high_start = down.high_start]
    ELSE IF down.order < 0
    THEN [st EXCEPT !.a = Swap(Swap(st.a, st.i, down.high_start, At(st.a, st.i)),
                               st.i, st.low_end, At(st.a, down.high_start)),
                    !.i = st.i + 1,
                    !.low_end = st.low_end + 1,
                    !.high_start = down.high_start]
    ELSE [st EXCEPT !.a = Swap(st.a, st.i, down.high_start, At(st.a, st.i)),
                    !.i = st.i + 1,
                    !.high_start = down.high_start]

\* one turn of the partition loop on the element a[i]
PartitionStep(positions, pivot, st) ==
    IF comparePosition(positions, At(st.a, st.i), pivot) < 0
    THEN [st EXCEPT !.a = Swap(st.a, st.i, st.low_end, At(st.a, st.i)),
                    !.i = st.i + 1,
                    !.low_end = st.low_end + 1]
    ELSE IF comparePosition(positions, At(st.a, st.i), pivot) > 0
    THEN PartitionAbove(st, ScanDown(positions, st.a, pivot, st.high_start, st.i))
    ELSE [st EXCEPT !.i = st.i + 1]

RECURSIVE PartitionRun(_, _, _, _)
PartitionRun(positions, pivot, st, n) ==
    IF st.i >= st.high_start THEN st
    ELSE IF n <= 1 THEN PartitionStep(positions, pivot, st)
    ELSE CHOOSE after \in
             { PartitionRun(positions, pivot, mid, n - (n \div 2)) :
                 mid \in { PartitionRun(positions, pivot, st, n \div 2) } } : TRUE

\* the partition loop, for (i = low_end + 1; i < high_start; i++):
\* a[from .. low_end-1] is below the pivot, a[low_end .. i-1] equals it,
\* a[high_start .. to-1] is above it
Partition(positions, pivot, st) == PartitionRun(positions, pivot, st, st.high_start - st.i)

\* v0, v1 in order
OrderTwo(positions, v0, v1) ==
    IF comparePosition(positions, v0, v1) > 0 THEN <<v1, v0>> ELSE <<v0, v1>>

\* v0 <= v1 with v2 put in its place: <<v0, v1, v2>> in order
OrderThree(positions, v, v2) ==
    IF comparePosition(positions, v[1], v2) >= 0 THEN <<v2, v[1], v[2]>>
    ELSE IF comparePosition(positions, v[2], v2) > 0 THEN <<v[1], v2, v[2]>>
    ELSE <<v[1], v[2], v2>>

\* a[from] = v0; a[to - 1] = v2; a[third_index] = a[low_end]; a[low_end] = pivot
PlacePivot(a, from, to, third_index, v) ==
    Swap(Set(Set(a, from, v[1]), to - 1, v[3]), third_index, from + 1, v[2])

RECURSIVE QuickSort(_, _, _, _)

\* InnerArraySort: an array of fewer than 2 elements is left as it is
InnerArraySort(positions, keys) ==
    IF Len(keys) < 2 THEN keys ELSE QuickSort(positions, keys, 0, Len(keys))

\* the indexes GetThirdIndex samples: for (i = from + 1; i < to - 1; i += increment)
SampledIndexes(from, to, increment) ==
    [j \in 1..((to - from - 3) \div increment + 1) |-> from + 1 + (j - 1) * increment]

\* GetThirdIndex(a, from, to): t_array holds [i, a[i]] for every sampled i and
\* is sorted by comparefn(a[1], b[1]); the index of its middle entry is the
\* pivot's.  The sampled indexes are sorted here, each with the position of
\* the key at it.
GetThirdIndex(positions, a, from, to) ==
    LET increment == 200 + ((to - from) % 16)
        t_array == SampledIndexes(from, to, increment)
        t_positions == [i \in Range(t_array) |-> positions[At(a, i)]]
    IN  At(InnerArraySort(t_positions, t_array), Len(t_array) \div 2)

\* the third element the pivot is the median of: the middle one, and for a
\* range of more than 1000 elements the one GetThirdIndex names
ThirdIndex(positions, a, from, to) ==
    IF to - from > 1000 THEN GetThirdIndex(positions, a, from, to)
    ELSE from + ((to - from) \div 2)

\* one turn of while (true) in QuickSort(a, from, to): at most 10 elements are
\* insertion-sorted and the sort returns; above, the range is partitioned
\* around the median of the first, the last and the third element, the
\* shorter part is sorted by a call of QuickSort and the longer part is the
\* range of the next turn
QuickSortParts(positions, st, p) ==
    IF st.to - p.high_start < p.low_end - st.from
    THEN [a |-> QuickSort(positions, p.a, p.high_start, st.to),
          from |-> st.from, to |-> p.low_end, done |-> FALSE]
    ELSE [a |-> QuickSort(positions, p.a, st.from, p.low_end),
          from |-> p.high_start, to |-> st.to, done |-> FALSE]

QuickSortAround(positions, st, third_index, v) ==
    CHOOSE after \in
        { QuickSortParts(positions, st, p) :
            p \in { Partition(positions, v[2],
                              [a |-> PlacePivot(st.a, st.from, st.to, third_index, v),
                               i |-> st.from + 2,
                               low_end |-> st.from + 1,
                               high_start |-> st.to - 1]) } } : TRUE

QuickSortStep(positions, st) ==
    IF st.to - st.from <= 10
    THEN [st EXCEPT !.a = InsertionSort(positions, st.a, st.from + 1, st.from, st.to),
                    !.done = TRUE]
    ELSE CHOOSE after \in
             { QuickSortAround(positions, st, third_index,
                               OrderThree(positions,
                                          OrderTwo(positions, At(st.a, st.from),
                                                   At(st.a, st.to - 1)),
                                          At(st.a, third_index))) :
                 third_index \in { ThirdIndex(positions, st.a, st.from, st.to) } } : TRUE

RECURSIVE QuickSortRun(_, _, _)
QuickSortRun(positions, st, n) ==
    IF st.done THEN st
    ELSE IF n <= 1 THEN QuickSortStep(positions, st)
    ELSE CHOOSE after \in
             { QuickSortRun(positions, mid, n - (n \div 2)) :
                 mid \in { QuickSortRun(positions, st, n \div 2) } } : TRUE

QuickSort(positions, a, from, to) ==
    QuickSortRun(positions, [a |-> a, from |-> from, to |-> to, done |-> FALSE],
                 to - from + 1).a

\* keys.sort((key1, key2) => position(key1) > position(key2) ? 1 : -1)
SortByPosition(sort, props, keys) ==
    CHOOSE sorted \in
        { IF sort = "TimSort" THEN TimSort(positions, keys)
          ELSE InnerArraySort(positions, keys) :
            positions \in { Positions(props, keys) } } : TRUE

----------------------------------------------------------------------------
(* getProperties, getListProperties, titleProperty *)

\* this.options[`${where}Properties`]
whereProperties(opts, where) ==
    CASE where = "list" -> opts.listProperties
      [] where = "show" -> opts.showProperties
      [] where = "edit" -> opts.editProperties
      [] where = "filter" -> opts.filterProperties

\* paths.map(this.getPropertyByKey): the first failing lookup throws
RECURSIVE MapGetPropertyByKey(_, _, _)
MapGetPropertyByKey(self, paths, acc) ==
    IF paths = <<>> THEN Return(acc)
    ELSE LET r == getPropertyByKey(self, Head(paths))
         IN  IF Threw(r) THEN r
             ELSE MapGetPropertyByKey(self, Tail(paths), Append(acc, r.value))

VisibleKeys(self, where) ==
    SelectSeq(Keys(self.properties),
              LAMBDA key : isVisible(Get(self.properties, key), where))

\* variant: max cuts an ordering override too
getProperties_CutOverride(self, where, max) ==
    LET override == whereProperties(self.options, where)
    IN  IF IsSome(override) /\ Len(Val(override)) # 0
        THEN LET mapped == MapGetPropertyByKey(self, Val(override), <<>>)
             IN  IF Returned(mapped) /\ max # 0
                 THEN Return(Slice(mapped.value, max)) ELSE mapped
        ELSE LET sorted == SortByPosition(self.engine, self.properties,
                                          VisibleKeys(self, where))
                 props == [i \in 1..Len(sorted) |-> Get(self.properties, sorted[i])]
             IN  IF max # 0 THEN Return(Slice(props, max)) ELSE Return(props)

\* variant: an override that is present is used, empty or not
getProperties_EmptyOverride(self, where, max) ==
    LET override == whereProperties(self.options, where)
    IN  IF IsSome(override)
        THEN MapGetPropertyByKey(self, Val(override), <<>>)
        ELSE LET sorted == SortByPosition(self.engine, self.properties,
                                          VisibleKeys(self, where))
                 props == [i \in 1..Len(sorted) |-> Get(self.properties, sorted[i])]
             IN  IF max # 0 THEN Return(Slice(props, max)) ELSE Return(props)

getProperties(self, where, max) ==
    LET override == whereProperties(self.options, where)
    IN  IF IsSome(override) /\ Len(Val(override)) # 0
        THEN MapGetPropertyByKey(self, Val(override), <<>>)
        ELSE LET sorted == SortByPosition(self.engine, self.properties,
                                          VisibleKeys(self, where))
                 props == [i \in 1..Len(sorted) |-> Get(self.properties, sorted[i])]
             IN  IF max # 0 THEN Return(Slice(props, max)) ELSE Return(props)

\* variant: the list is asked for without the column cap
getListProperties_Uncapped(self) == getProperties(self, "list", 0)

getListProperties(self) == getProperties(self, "list", DEFAULT_MAX_COLUMNS_IN_LIST)

\* variant: the last title property is taken
titleProperty_LastTitle(self) ==
    LET props == Values(self.properties)
        titles == SelectSeq(props, isTitle)
    IN  IF titles # <<>> THEN Some(titles[Len(titles)])
        ELSE IF props # <<>> THEN Some(props[1])
        ELSE None

\* properties.find(p => p.isTitle()) || properties[0]
titleProperty(self) ==
    LET props == Values(self.properties)
        titles == SelectSeq(props, isTitle)
    IN  IF titles # <<>> THEN Some(Head(titles))
        ELSE IF props # <<>> THEN Some(props[1])
        ELSE None

----------------------------------------------------------------------------
(* The default actions and ActionDecorator (collaborators of the resource  *)
(* decorator; only what the resource decorator calls).  A visibility or    *)
(* access rule is named by what it computes from the current admin.        *)

BuiltInAction(key, label, actionType) ==
    [key |-> key,
     value |-> [name |-> Some(key), label |-> Some(label),
                actionType |-> Some(actionType),
                isVisible |-> Some("always"), isAccessible |-> Some("always")]]

\* import * as ACTIONS from '../actions/index' (ACTIONS is a reserved word here)
DEFAULT_ACTIONS ==
    << BuiltInAction("new", "Create new", "resource"),
       BuiltInAction("edit", "Edit", "record"),
       BuiltInAction("show", "Info", "record"),
       BuiltInAction("delete", "Delete", "record"),
       BuiltInAction("list", "All records", "resource") >>

ActionFields == {"name", "label", "actionType", "isVisible", "isAccessible"}

\* new ActionDecorator({ action, admin, resource })
ActionDecorator(action) == [action |-> action]

isResourceType(a) == a.action.actionType = Some("resource")
isRecordType(a) == a.action.actionType = Some("record")

\* a rule applied to the current admin (and, for a record action, the record)
Holds(rule, currentAdmin, record) ==
    CASE rule = None -> TRUE
      [] rule = Some("always") -> TRUE
      [] rule = Some("never") -> FALSE
      [] rule = Some("adminOnly") ->
            IsSome(currentAdmin) /\ Val(currentAdmin).role = "admin"

isActionVisible(a, currentAdmin, record) == Holds(a.action.isVisible, currentAdmin, record)
isAccessible(a, currentAdmin, record) == Holds(a.action.isAccessible, currentAdmin, record)

ActionJSON(a) ==
    [name |-> a.action.name, label |-> a.action.label,
     actionType |-> a.action.actionType]

----------------------------------------------------------------------------
(* decorateActions *)

\* variant: Object.assign, the user's action object replaces the default whole
MergeAction_Replace(destination, source) == source

\* _.merge of one action object: a field the source defines replaces the
\* destination's, a field it leaves undefined keeps the destination's
MergeAction(destination, source) ==
    [f \in ActionFields |-> IF IsSome(source[f]) THEN source[f] ELSE destination[f]]

\* _.merge(object, source) over the keys of source, in source order.  The
\* merge reads the source's '__proto__' as undefined and merges nothing for it.
RECURSIVE Merge(_, _)
Merge(object, source) ==
    IF source = <<>> THEN object
    ELSE LET key == Head(source).key
             merged == IF Has(object, key)
                       THEN MergeAction(Get(object, key), Head(source).value)
                       ELSE Head(source).value
         IN  IF key = "__proto__" THEN Merge(object, Tail(source))
             ELSE Merge(PutAction(object, key, merged), Tail(source))

\* const actions = _.merge({}, ACTIONS, this.options.actions || {})
MergedActions(opts) ==
    Merge(Merge(<<>>, DEFAULT_ACTIONS),
          IF IsSome(opts.actions) THEN Val(opts.actions) ELSE <<>>)

\* actions[key].name = actions[key].name || key; the same for label;
\* new ActionDecorator({ action: actions[key], ... })
DecorateAction(key, action) ==
    ActionDecorator([action EXCEPT
        !.name = IF Truthy(action.name) THEN action.name ELSE Some(key),
        !.label = IF Truthy(action.label) THEN action.label ELSE Some(key)])

\* returnActions[key] = decorator: for the key '__proto__' the assignment
\* sets the prototype of returnActions and adds no key
AssignAction(returnActions, key, decorator) ==
    IF key = "__proto__" THEN returnActions
    ELSE PutAction(returnActions, key, decorator)

\* Object.keys(actions).forEach(key => { ... returnActions[key] = ... })
RECURSIVE ForEachAction(_, _, _)
ForEachAction(keys, merged, returnActions) ==
    IF keys = <<>> THEN returnActions
    ELSE ForEachAction(Tail(keys), merged,
                       AssignAction(returnActions, Head(keys),
                                    DecorateAction(Head(keys), Get(merged, Head(keys)))))

decorateActions(res, opts) ==
    ForEachAction(Keys(MergedActions(opts)), MergedActions(opts), <<>>)

----------------------------------------------------------------------------
(* resourceActions, recordActions *)

\* variant: the access rule is not asked
resourceActions_IgnoreAccess(self, currentAdmin) ==
    SelectSeq(Values(self.actions),
              LAMBDA action : /\ isResourceType(action)
                              /\ isActionVisible(action, currentAdmin, None))

resourceActions(self, currentAdmin) ==
    SelectSeq(Values(self.actions),
              LAMBDA action : /\ isResourceType(action)
                              /\ isActionVisible(action, currentAdmin, None)
                              /\ isAccessible(action, currentAdmin, None))

recordActions(self, record, currentAdmin) ==
    SelectSeq(Values(self.actions),
              LAMBDA action : /\ isRecordType(action)
                              /\ isActionVisible(action, currentAdmin, Some(record))
                              /\ isAccessible(action, currentAdmin, Some(record)))

----------------------------------------------------------------------------
(* titleOf, getParent, toJSON *)

\* record.param(path): the record's own value at the path, if any
param(record, path) == IF Has(record, path) THEN Some(Get(record, path)) ELSE None

titleOf(self, record) ==
    LET title == titleProperty(self)
    IN  IF title = None THEN Throw(TypeError)
        ELSE Return(param(record, name(Val(title))))

\* options.parent is a string, or an object { name, icon }
ParentString(text) == [text |-> Some(text), name |-> None, icon |-> None]
ParentObject(parentName, icon) == [text |-> None, name |-> parentName, icon |-> icon]

\* a string is truthy when it is not empty, an object always
TruthyParent(parent) == IsSome(parent.text) => Val(parent.text) # ""

\* parent = this.options.parent || this._resource.databaseName()
\* name = parent.name || parent
\* icon = parent.icon ? parent.icon : `icon-${databaseType() || 'database'}`
getParent(self) ==
    LET parent == IF IsSome(self.options.parent) /\ TruthyParent(Val(self.options.parent))
                  THEN Val(self.options.parent)
                  ELSE ParentString(self.resource.databaseName)
        parentName == IF Truthy(parent.name) THEN Val(parent.name)
                      ELSE IF IsSome(parent.text) THEN Val(parent.text)
                      ELSE parent
        icon == IF Truthy(parent.icon) THEN Val(parent.icon)
                ELSE <<"icon-", IF Truthy(self.resource.databaseType)
                                THEN Val(self.resource.databaseType)
                                ELSE "database">>
    IN  [name |-> parentName, icon |-> icon]

\* this.h.resourceActionUrl({ resourceId, actionName })
resourceActionUrl(resourceId, actionName) ==
    <<"/admin", "/resources/", resourceId, "/actions/", actionName>>

\* a PropertyDecorator, not a member inherited from Object.prototype
IsDecorator(p) == "property" \in DOMAIN p

\* getProperties(...).map(property => property.toJSON()): a member inherited
\* from Object.prototype has no toJSON
MapJSON(got) ==
    IF Threw(got) THEN got
    ELSE IF \E i \in 1..Len(got.value) : ~IsDecorator(got.value[i]) THEN Throw(TypeError)
    ELSE Return([i \in 1..Len(got.value) |-> PropertyJSON(got.value[i])])

\* the members of the object literal are evaluated in the order written
toJSON(self, currentAdmin) ==
    LET title == titleProperty(self)
        list == MapJSON(getProperties(self, "list", DEFAULT_MAX_COLUMNS_IN_LIST))
        edit == MapJSON(getProperties(self, "edit", 0))
        show == MapJSON(getProperties(self, "show", 0))
        filter == MapJSON(getProperties(self, "filter", 0))
        ras == resourceActions(self, currentAdmin)
    IN  IF title = None THEN Throw(TypeError)
        ELSE IF Threw(list) THEN list
        ELSE IF Threw(edit) THEN edit
        ELSE IF Threw(show) THEN show
        ELSE IF Threw(filter) THEN filter
        ELSE Return([id |-> self.resource.id,
                     name |-> getResourceName(self),
                     parent |-> getParent(self),
                     href |-> resourceActionUrl(self.resource.id, "list"),
                     titleProperty |-> PropertyJSON(Val(title)),
                     resourceActions |-> [i \in 1..Len(ras) |-> ActionJSON(ras[i])],
                     listProperties |-> list.value,
                     editProperties |-> edit.value,
                     showProperties |-> show.value,
                     filterProperties |-> filter.value])

----------------------------------------------------------------------------
(* Inputs: the resources, options, users and records the decorator is     *)
(* built from and queried with                                            *)

DescriptorNames ==
    << <<"id">>, <<"name">>, <<"address", "city">>, <<"email">>, <<"phone">>,
       <<"age">>, <<"role">>, <<"status">>, <<"bio">>, <<"createdAt">>,
       <<"updatedAt">>, <<"notes">>, <<"avatar">>, <<"locale">> >>

\* descriptors with array-index names, given out of numeric order, and one
\* named like a member of Object.prototype
OddDescriptorNames == << <<"name">>, <<"11">>, <<"2">>, <<"toString">> >>

DescriptorCounts == (0..MaxSmallResource) \cup {MaxDescriptors}

\* a resource of the adapter with the first n descriptors of the names
Resource(names, n, databaseType) ==
    [id |-> "User", name |-> "users", databaseName |-> "shop",
     databaseType |-> databaseType,
     properties |-> [i \in 1..n |-> BaseProperty(names[i], TRUE)]]

\* paths that options.properties may name: a descriptor of every resource with
\* two or more descriptors, a path of no resource, a dotted path that is a
\* descriptor of the large resources only
OptionPaths == { <<"name">>, <<"ghost">>, <<"address", "city">> }

\* and: a name every object inherits, an array index, digits that are no
\* array index, a name that is inherited by every object and a descriptor of
\* the odd resource
OddOptionPaths == { <<"constructor">>, <<"12">>, <<"007">>, <<"toString">> }

PlainOptions == [position |-> None, isVisible |-> None, isTitle |-> None]
HiddenInListOptions ==
    [position |-> Some(200), isVisible |-> Some({"show", "edit"}), isTitle |-> None]
TitleOptions == [position |-> None, isVisible |-> None, isTitle |-> Some(TRUE)]

PropertyOptionChoices ==
    { PlainOptions,
      [position |-> Some(1), isVisible |-> None, isTitle |-> None],
      HiddenInListOptions,
      TitleOptions,
      [position |-> Some(200), isVisible |-> None, isTitle |-> Some(TRUE)],
      [position |-> None, isVisible |-> Some({}), isTitle |-> Some(FALSE)] }

\* the maps of at most n distinct keys, listed as a JavaScript object lists them
MapsUpTo(isPath, keys, values, n) ==
    { m \in SeqsUpTo([key : keys, value : values], n) :
        IsInjective(Keys(m)) /\ IsObjectOrder(isPath, m) }

\* paths that an ordering override may name
OverridePaths == { <<"name">>, <<"ghost">>, <<"nested", "path">>, <<"constructor">> }

\* an override longer than the default column cap, of paths every resource
\* with two or more descriptors has
LongOverride ==
    [i \in 1..(DEFAULT_MAX_COLUMNS_IN_LIST + 1) |->
        IF i % 2 = 1 THEN <<"name">> ELSE <<"id">>]

OverrideChoices == SeqsUpTo(OverridePaths, MaxOverrideLen) \cup {LongOverride}

\* the places an override is given for
OverridePlaces == { {"list"}, {"show", "filter"}, PropertyPlace }

\* names that options.actions may have as keys of its own: built-in actions,
\* an action of the user, array indexes, and '__proto__' (a key of its own
\* when the options come from JSON.parse)
ActionOptionKeys == {"delete", "list", "export", "11", "7", "__proto__"}

NoActionOption ==
    [name |-> None, label |-> None, actionType |-> None,
     isVisible |-> None, isAccessible |-> None]

\* what the user gives for a built-in action
ActionOptionChoices ==
    { NoActionOption,
      [NoActionOption EXCEPT !.label = Some("Remove")],
      [NoActionOption EXCEPT !.label = Some("")],
      [NoActionOption EXCEPT !.isAccessible = Some("adminOnly")],
      [NoActionOption EXCEPT !.isVisible = Some("never")],
      [NoActionOption EXCEPT !.actionType = Some("resource")],
      [NoActionOption EXCEPT !.name = Some("renamed"), !.actionType = Some("record"),
                             !.isAccessible = Some("never")] }

\* what the user gives for an action of their own
OwnActionChoices ==
    { NoActionOption,
      [NoActionOption EXCEPT !.actionType = Some("resource")],
      [NoActionOption EXCEPT !.actionType = Some("resource"),
                             !.isAccessible = Some("adminOnly")] }

\* the values options.actions may hold: at most n keys, listed as a JavaScript
\* object lists them
ActionOptionMaps(n) ==
    { m \in MapsUpTo(FALSE, ActionOptionKeys,
                     ActionOptionChoices \cup OwnActionChoices, n) :
        \A i \in 1..Len(m) :
            m[i].value \in IF Has(DEFAULT_ACTIONS, m[i].key) THEN ActionOptionChoices
                           ELSE OwnActionChoices }

ParentChoices ==
    { None, Some(ParentString("Shop")), Some(ParentString("")),
      Some(ParentObject(Some("Shop"), Some("icon-cart"))),
      Some(ParentObject(Some("Shop"), None)),
      Some(ParentObject(Some(""), Some("icon-cart"))) }

\* currentAdmin: undefined, or the logged-in admin
CurrentAdmins ==
    { None, Some([email |-> "root@example.com", role |-> "admin"]),
      Some([email |-> "guest@example.com", role |-> "editor"]) }

Records ==
    { << [key |-> <<"id">>, value |-> "1"], [key |-> <<"name">>, value |-> "Ada"] >>,
      << [key |-> <<"id">>, value |-> "2"], [key |-> <<"ghost">>, value |-> "Bob"] >> }

\* paths looked up with getPropertyByKey
LookupPaths == OptionPaths \cup OverridePaths \cup { <<"id">>, <<"2">> }

\* the max argument of getProperties: absent (0), a number of entries, a
\* negative number
MaxChoices == {0, 1, 3, -1}

NoOptions ==
    [name |-> None, parent |-> None, properties |-> None, actions |-> None,
     listProperties |-> None, showProperties |-> None,
     editProperties |-> None, filterProperties |-> None]

WithOverride(opts, places, override) ==
    [opts EXCEPT
        !.listProperties = IF "list" \in places THEN Some(override) ELSE None,
        !.showProperties = IF "show" \in places THEN Some(override) ELSE None,
        !.editProperties = IF "edit" \in places THEN Some(override) ELSE None,
        !.filterProperties = IF "filter" \in places THEN Some(override) ELSE None]

----------------------------------------------------------------------------
(* The constructor, and the state machine *)

\* constructor({ resource, admin, options = {} })
constructor(res, opts) ==
    LET normalised == [opts EXCEPT
            !.properties = IF IsSome(opts.properties) THEN Val(opts.properties) ELSE <<>>]
    IN  [resource |-> res, options |-> normalised,
         properties |-> decorateProperties(res, normalised),
         actions |-> decorateActions(res, normalised)]

Self == [resource |-> resource, options |-> options,
         properties |-> properties, actions |-> actions, engine |-> engine]

Constructed(sort, res, opts) ==
    LET self == constructor(res, opts)
    IN  /\ engine = sort
        /\ resource = self.resource
        /\ options = self.options
        /\ properties = self.properties
        /\ actions = self.actions
        /\ constructed = [options |-> self.options, properties |-> self.properties,
                          actions |-> self.actions]
        /\ journal = <<>>
        /\ pc = "ready"
        /\ call = [op |-> "none"]
        /\ result = [status |-> "none"]

\* property options of every shape, no ordering override; on the earlier
\* engine the resources of MaxSmallResource and of MaxDescriptors descriptors
InitProperties ==
    \E sort \in Engines :
    \E n \in IF sort = "TimSort" THEN DescriptorCounts
              ELSE {MaxSmallResource, MaxDescriptors} :
    \E props \in {None} \cup
                 {Some(m) : m \in MapsUpTo(TRUE, OptionPaths,
                                           PropertyOptionChoices, MaxOptionProps)} :
        Constructed(sort, Resource(DescriptorNames, n, Some("mongodb")),
                    [NoOptions EXCEPT !.properties = props])

\* integer-like and inherited names among the descriptors, the keys of
\* options.properties and the entries of an ordering override
InitOddNames ==
    \E res \in { Resource(DescriptorNames, MaxSmallResource, Some("mongodb")),
                  Resource(OddDescriptorNames, Len(OddDescriptorNames), Some("mongodb")) } :
    \E m \in MapsUpTo(TRUE, OddOptionPaths,
                       {PlainOptions, TitleOptions, HiddenInListOptions},
                       MaxOptionProps) :
    \E override \in { None, Some(<< <<"constructor">> >>),
                       Some(<< <<"name">>, <<"toString">> >>) } :
        Constructed("TimSort", res,
                    [NoOptions EXCEPT !.properties = Some(m),
                                      !.listProperties = override])

\* ordering overrides of every shape, with at most one property option; an
\* empty override on both engines
InitOverrides ==
    \E n \in {0, MaxSmallResource, MaxDescriptors} :
    \E m \in MapsUpTo(TRUE, {<<"name">>, <<"ghost">>},
                       {PlainOptions, TitleOptions, HiddenInListOptions}, 1) :
    \E override \in OverrideChoices :
    \E places \in OverridePlaces :
    \E sort \in IF override = <<>> THEN Engines ELSE {"TimSort"} :
        Constructed(sort, Resource(DescriptorNames, n, Some("mongodb")),
                    WithOverride([NoOptions EXCEPT !.properties = Some(m)],
                                 places, override))

\* action options of every shape
InitActions ==
    \E acts \in {None} \cup
                {Some(m) : m \in ActionOptionMaps(MaxActionOptions)} :
        Constructed("TimSort", Resource(DescriptorNames, MaxSmallResource, Some("mongodb")),
                    [NoOptions EXCEPT !.actions = acts])

\* the resource's name, parent and database type
InitNaming ==
    \E n \in {0, MaxSmallResource} :
    \E resourceName \in {None, Some("Customers"), Some("")} :
    \E parent \in ParentChoices :
    \E databaseType \in {None, Some("mongodb")} :
    \E override \in {None, Some(<< <<"nested", "path">> >>)} :
        Constructed("QuickSort", Resource(DescriptorNames, n, databaseType),
                    [NoOptions EXCEPT !.name = resourceName, !.parent = parent,
                                      !.listProperties = override])

\* the wide resource on both engines: every property is visible in the list,
\* every hundredth in the other places too, and the positions are given so
\* that each is shared by two or three properties far apart
WideDescriptorNames == [i \in 1..WideDescriptors |-> <<"column" \o ToString(i)>>]

WideOptionProperties ==
    [i \in 1..WideDescriptors |->
        [key |-> WideDescriptorNames[i],
         value |-> [position |-> Some((i * 37) % 503),
                    isVisible |-> IF i % 100 = 0 THEN None ELSE Some({"list"}),
                    isTitle |-> None]]]

InitWide ==
    \E sort \in Engines :
    \E override \in {None, Some(<<>>)} :
        (sort = "TimSort" => override = None)
        /\ Constructed(sort, Resource(WideDescriptorNames, WideDescriptors, Some("mongodb")),
                       [NoOptions EXCEPT !.properties = Some(WideOptionProperties),
                                         !.listProperties = override])

Init ==
    \/ InitProperties
    \/ InitOddNames
    \/ InitOverrides
    \/ InitActions
    \/ InitNaming
    \/ InitWide

\* A query runs when the decorator is ready; it records its arguments and its
\* outcome and assigns none of the decorator's fields.

GetPropertyByKey ==
    \E propertyPath \in LookupPaths :
        /\ pc = "ready"
        /\ call' = [op |-> "getPropertyByKey", propertyPath |-> propertyPath]
        /\ result' = getPropertyByKey(Self, propertyPath)
        /\ pc' = "returned"
        /\ UNCHANGED <<resource, options, properties, actions, engine, constructed, journal>>

\* variant: the sorted order is written back to this.properties
GetProperties_SortInPlace ==
    \E where \in PropertyPlace, max \in MaxChoices :
        /\ pc = "ready"
        /\ call' = [op |-> "getProperties", where |-> where, max |-> max]
        /\ result' = getProperties(Self, where, max)
        /\ pc' = "returned"
        /\ properties' =
              LET sorted == SortByPosition(engine, properties, Keys(properties))
              IN  [i \in 1..Len(sorted) |->
                      [key |-> sorted[i], value |-> Get(properties, sorted[i])]]
        /\ UNCHANGED <<resource, options, actions, engine, constructed, journal>>

GetProperties ==
    \E where \in PropertyPlace, max \in MaxChoices :
        /\ pc = "ready"
        /\ call' = [op |-> "getProperties", where |-> where, max |-> max]
        /\ result' = getProperties(Self, where, max)
        /\ pc' = "returned"
        /\ UNCHANGED <<resource, options, properties, actions, engine, constructed, journal>>

GetListProperties ==
    /\ pc = "ready"
    /\ call' = [op |-> "getListProperties"]
    /\ result' = getListProperties(Self)
    /\ pc' = "returned"
    /\ UNCHANGED <<resource, options, properties, actions, engine, constructed, journal>>

ResourceActions ==
    \E currentAdmin \in CurrentAdmins :
        /\ pc = "ready"
        /\ call' = [op |-> "resourceActions", currentAdmin |-> currentAdmin]
        /\ result' = Return(resourceActions(Self, currentAdmin))
        /\ pc' = "returned"
        /\ UNCHANGED <<resource, options, properties, actions, engine, constructed, journal>>

RecordActions ==
    \E record \in Records, currentAdmin \in CurrentAdmins :
        /\ pc = "ready"
        /\ call' = [op |-> "recordActions", record |-> record,
                    currentAdmin |-> currentAdmin]
        /\ result' = Return(recordActions(Self, record, currentAdmin))
        /\ pc' = "returned"
        /\ UNCHANGED <<resource, options, properties, actions, engine, constructed, journal>>

TitleProperty ==
    /\ pc = "ready"
    /\ call' = [op |-> "titleProperty"]
    /\ result' = Return(titleProperty(Self))
    /\ pc' = "returned"
    /\ UNCHANGED <<resource, options, properties, actions, engine, constructed, journal>>

TitleOf ==
    \E record \in Records :
        /\ pc = "ready"
        /\ call' = [op |-> "titleOf", record |-> record]
        /\ result' = titleOf(Self, record)
        /\ pc' = "returned"
        /\ UNCHANGED <<resource, options, properties, actions, engine, constructed, journal>>

ToJSON ==
    \E currentAdmin \in CurrentAdmins :
        /\ pc = "ready"
        /\ call' = [op |-> "toJSON", currentAdmin |-> currentAdmin]
        /\ result' = toJSON(Self, currentAdmin)
        /\ pc' = "returned"
        /\ UNCHANGED <<resource, options, properties, actions, engine, constructed, journal>>

\* the caller takes the outcome; the decorator serves the next query
Respond ==
    /\ pc = "returned"
    /\ pc' = "ready"
    /\ call' = [op |-> "none"]
    /\ result' = [status |-> "none"]
    /\ UNCHANGED <<resource, options, properties, actions, engine, constructed, journal>>

Next ==
    \/ GetPropertyByKey
    \/ GetProperties
    \/ GetListProperties
    \/ ResourceActions
    \/ RecordActions
    \/ TitleProperty
    \/ TitleOf
    \/ ToJSON
    \/ Respond

Spec == Init /\ [][Next]_vars

\* Sequences of queries.  The caller takes the outcome as in Respond, and the
\* journal keeps the first MaxJournal queries that completed, each with its
\* outcome, so that a later query can be compared with an earlier one.
Record ==
    /\ pc = "returned"
    /\ pc' = "ready"
    /\ journal' = IF Len(journal) < MaxJournal
                  THEN Append(journal, [call |-> call, result |-> result])
                  ELSE journal
    /\ call' = [op |-> "none"]
    /\ result' = [status |-> "none"]
    /\ UNCHANGED <<resource, options, properties, actions, engine, constructed>>

\* decorators whose queries sort, cut, throw, read inherited members and
\* filter actions
JournalOptions ==
    { NoOptions,
      [NoOptions EXCEPT
          !.properties = Some(<< [key |-> <<"name">>, value |-> HiddenInListOptions],
                                 [key |-> <<"ghost">>,
                                  value |-> [position |-> Some(1), isVisible |-> None,
                                             isTitle |-> Some(TRUE)]] >>),
          !.showProperties = Some(<< <<"name">>, <<"constructor">> >>),
          !.filterProperties = Some(<< <<"nested", "path">> >>),
          !.editProperties = Some(<<>>),
          !.actions = Some(<< [key |-> "list",
                               value |-> [NoActionOption EXCEPT
                                             !.isAccessible = Some("adminOnly")]],
                              [key |-> "7",
                               value |-> [NoActionOption EXCEPT
                                             !.actionType = Some("resource")]] >>)] }

InitJournal ==
    \E sort \in Engines :
    \E opts \in JournalOptions :
        Constructed(sort, Resource(DescriptorNames, MaxDescriptors, Some("mongodb")), opts)

NextJournal ==
    \/ GetPropertyByKey
    \/ GetProperties
    \/ GetListProperties
    \/ ResourceActions
    \/ RecordActions
    \/ TitleProperty
    \/ TitleOf
    \/ ToJSON
    \/ Record

SpecJournal == InitJournal /\ [][NextJournal]_vars

----------------------------------------------------------------------------
(* Vocabulary of the properties checked below *)

Done(op) == pc = "returned" /\ call.op = op

\* the query that completed is getProperties({where, max}) or getListProperties()
DoneGetProperties == Done("getProperties") \/ Done("getListProperties")
CallWhere == IF Done("getListProperties") THEN "list" ELSE call.where
CallMax == IF Done("getListProperties") THEN DEFAULT_MAX_COLUMNS_IN_LIST ELSE call.max

\* the ordering override of the place that was asked for
CallOverride == whereProperties(options, CallWhere)
HasOverride == IsSome(CallOverride) /\ Val(CallOverride) # <<>>

DescriptorPaths == {resource.properties[i].path : i \in 1..Len(resource.properties)}

OverridePathsOf(opts) ==
    UNION {IF IsSome(whereProperties(opts, w)) THEN Range(Val(whereProperties(opts, w)))
           ELSE {} : w \in PropertyPlace}

\* the decorators of the map visible in a place
VisibleIn(where) == {p \in Range(Values(properties)) : isVisible(p, where)}

\* how many of n entries are left when they are truncated to the first max
\* entries, max not being 0
FirstMax(max, n) == IF max # 0 THEN Min(max, n) ELSE n

\* how many of n entries properties.slice(0, max) leaves for an integer max
\* that is not 0: the first max when max is positive, all but the last -max
\* when it is negative
SliceLength(max, n) ==
    IF max > 0 THEN Min(max, n)
    ELSE IF max < 0 THEN Max(n + max, 0)
    ELSE n

\* r is made of length of the visible properties of the place, each once, in
\* ascending order of position (strictly ascending when strict), and no
\* visible property left out has a smaller position than one of r
IsVisibleSortedCut(r, where, length, strict) ==
    /\ Range(r) \subseteq VisibleIn(where)
    /\ Cardinality(Range(r)) = Len(r)
    /\ Len(r) = length
    /\ \A i \in 1..(Len(r) - 1) :
          IF strict THEN position(r[i]) < position(r[i + 1])
          ELSE position(r[i]) <= position(r[i + 1])
    /\ \A p \in VisibleIn(where) \ Range(r) :
          \A i \in 1..Len(r) : position(r[i]) <= position(p)

----------------------------------------------------------------------------
(* C1: getListProperties() returns at most 8 property decorators for every  *)
(* options object, an ordering override of any length included.             *)
(* This fails: a non-empty listProperties override is returned whole.       *)
C1_ListNeverExceedsCap ==
    (Done("getListProperties") /\ Returned(result))
        => Len(result.value) <= DEFAULT_MAX_COLUMNS_IN_LIST

\* this.properties[path] is truthy: the path is a key of the map, or the name
\* of a member every object inherits from Object.prototype
Resolves(path) ==
    \/ path \in KeySet(properties)
    \/ Len(path) = 1 /\ path[1] \in ObjectPrototypeMembers

(* C1 as amended: without a non-empty listProperties override               *)
(* getListProperties() returns at most 8 decorators, however many           *)
(* properties are visible in the list; with one, it returns one element per *)
(* entry of the override (more than 8 for more than 8 entries) when every   *)
(* entry resolves, and throws a ConfigurationError when an entry does not.  *)
C1_ListCappedWithoutOverride ==
    Done("getListProperties")
        => IF ~HasOverride
           THEN /\ Returned(result)
                /\ Len(result.value) <= DEFAULT_MAX_COLUMNS_IN_LIST
           ELSE IF \A i \in 1..Len(Val(CallOverride)) : Resolves(Val(CallOverride)[i])
           THEN /\ Returned(result)
                /\ Len(result.value) = Len(Val(CallOverride))
           ELSE /\ Threw(result)
                /\ result.error.name = "ConfigurationError"

C1_Witness ==
    /\ Done("getListProperties")
    /\ ~HasOverride
    /\ Cardinality(VisibleIn("list")) > DEFAULT_MAX_COLUMNS_IN_LIST
    /\ Returned(result)
    /\ Len(result.value) = DEFAULT_MAX_COLUMNS_IN_LIST

----------------------------------------------------------------------------
(* C2: every path named in options.properties or in an ordering override,   *)
(* that is no descriptor and has no '.', is a key of the properties map     *)
(* bound to a synthesized non-sortable property; a dotted path that is no   *)
(* descriptor is never a key.                                               *)
(* This fails: a key of options.properties that names a member inherited    *)
(* from Object.prototype ('constructor') passes for a property that exists  *)
(* and is not synthesized; and a path named only in an ordering override is *)
(* never looked at during construction.                                     *)
IsSynthesized(path) ==
    /\ Has(properties, path)
    /\ Get(properties, path).property = BaseProperty(path, FALSE)

C2_NamedPathsSynthesized ==
    /\ \A path \in KeySet(options.properties) \cup OverridePathsOf(options) :
          (path \notin DescriptorPaths /\ ~HasDot(path)) => IsSynthesized(path)
    /\ \A path \in KeySet(options.properties) \cup OverridePathsOf(options) :
          (path \notin DescriptorPaths /\ HasDot(path)) => ~Has(properties, path)

----------------------------------------------------------------------------
(* C3: with no ordering override for the place, getProperties({where, max}) *)
(* returns exactly the visible properties (the first max when max is not 0) *)
(* sorted strictly ascending by position.                                   *)
(* This fails: properties of equal position are adjacent in the result.     *)
C3_StrictlyAscending ==
    (DoneGetProperties /\ CallOverride = None)
        => /\ Returned(result)
           /\ IsVisibleSortedCut(result.value, CallWhere,
                                 FirstMax(CallMax, Cardinality(VisibleIn(CallWhere))),
                                 TRUE)

(* C3 as amended: the same, sorted ascending by position, where properties  *)
(* of equal position may follow one another: of two adjacent returned       *)
(* properties the earlier has a smaller or equal position.  In which order  *)
(* properties of equal position follow one another is the engine's choice.  *)
(* An integer max that is not 0 cuts the sorted sequence as slice(0, max)   *)
(* does: to its first max entries when positive, to all but its last -max   *)
(* entries when negative.                                                   *)
C3_Ascending ==
    (DoneGetProperties /\ CallOverride = None)
        => /\ Returned(result)
           /\ IsVisibleSortedCut(result.value, CallWhere,
                                 SliceLength(CallMax, Cardinality(VisibleIn(CallWhere))),
                                 FALSE)

C3_Witness ==
    /\ Done("getProperties")
    /\ CallOverride = None
    /\ Returned(result)
    /\ \E i \in 1..(Len(result.value) - 1) :
          position(result.value[i]) = position(result.value[i + 1])
    /\ \E i \in 1..(Len(result.value) - 1) :
          position(result.value[i]) < position(result.value[i + 1])
    /\ VisibleIn(call.where) # Range(Values(properties))
    /\ call.max < 0
    /\ Len(result.value) = Cardinality(VisibleIn(call.where)) + call.max

----------------------------------------------------------------------------
(* C4: with a non-empty ordering override whose entries are all keys of the *)
(* map, getProperties({where, max}) returns the decorators of the named     *)
(* properties, one per entry, in the order of the override, whatever max    *)
(* and whatever their position and visibility.                              *)
C4_OverrideReturnedAsGiven ==
    (DoneGetProperties /\ HasOverride
        /\ Range(Val(CallOverride)) \subseteq KeySet(properties))
        => /\ Returned(result)
           /\ Len(result.value) = Len(Val(CallOverride))
           /\ \A i \in 1..Len(result.value) :
                 /\ name(result.value[i]) = Val(CallOverride)[i]
                 /\ result.value[i] = Get(properties, Val(CallOverride)[i])

C4_Witness ==
    /\ Done("getProperties")
    /\ HasOverride
    /\ Range(Val(CallOverride)) \subseteq KeySet(properties)
    /\ Returned(result)
    /\ call.max > 0
    /\ Len(result.value) > call.max
    /\ \E i \in 1..Len(result.value) : ~isVisible(result.value[i], call.where)
    /\ \E i \in 1..(Len(result.value) - 1) :
          position(result.value[i]) > position(result.value[i + 1])

----------------------------------------------------------------------------
(* C5: getPropertyByKey(path) throws a ConfigurationError that carries the  *)
(* path and the resolved resource name whenever path is no key of the map,  *)
(* and getProperties with an ordering override that names such a path       *)
(* throws that error; neither returns.                                      *)
(* This fails: for a path that names a member inherited from                *)
(* Object.prototype ('constructor') and is no key of the map,               *)
(* getPropertyByKey returns the inherited member and throws nothing.        *)
FirstMissing(paths) ==
    paths[CHOOSE i \in 1..Len(paths) :
            /\ ~Has(properties, paths[i])
            /\ \A j \in 1..(i - 1) : Has(properties, paths[j])]

IsConfigurationErrorFor(r, path) ==
    /\ Threw(r)
    /\ r.error.name = "ConfigurationError"
    /\ r.error.message.propertyPath = path
    /\ r.error.message.resourceName =
          (IF Truthy(options.name) THEN Val(options.name) ELSE resource.name)

C5_MissingPathThrows ==
    /\ (Done("getPropertyByKey") /\ call.propertyPath \notin KeySet(properties))
          => IsConfigurationErrorFor(result, call.propertyPath)
    /\ (DoneGetProperties /\ HasOverride
          /\ ~(Range(Val(CallOverride)) \subseteq KeySet(properties)))
          => IsConfigurationErrorFor(result, FirstMissing(Val(CallOverride)))

----------------------------------------------------------------------------
(* C6: the actions map has a key for every built-in action and for every    *)
(* action name of options.actions; of a built-in action every field the     *)
(* user did not override keeps its default and every overridden field has   *)
(* the user's value (overriding only delete.label leaves delete's scope and *)
(* its visibility and access rules as they were).                           *)
(* This fails: a name or label overridden with the empty string is         *)
(* replaced by the action's key, and an action the user names '__proto__'   *)
(* is no key of the actions map.                                            *)
UserActions == IF IsSome(options.actions) THEN Val(options.actions) ELSE <<>>

C6_DefaultsMergedPerField ==
    /\ \A i \in 1..Len(DEFAULT_ACTIONS) :
          LET key == DEFAULT_ACTIONS[i].key
              default == DEFAULT_ACTIONS[i].value
          IN  /\ Has(actions, key)
              /\ \A f \in ActionFields :
                    Get(actions, key).action[f] =
                        IF Has(UserActions, key) /\ Get(UserActions, key)[f] # None
                        THEN Get(UserActions, key)[f]
                        ELSE default[f]
    /\ \A key \in KeySet(UserActions) : Has(actions, key)

----------------------------------------------------------------------------
(* C7: resourceActions(currentAdmin) returns, in the insertion order of the *)
(* actions map, exactly the actions that are resource-level and whose       *)
(* visibility and access rules both hold for the admin; an action whose     *)
(* access rule fails is left out even when it is visible, and no record     *)
(* action is returned.                                                      *)
Qualifies(a, currentAdmin) ==
    /\ a.action.actionType = Some("resource")
    /\ Holds(a.action.isVisible, currentAdmin, None)
    /\ Holds(a.action.isAccessible, currentAdmin, None)

\* the names in the order in which decorateActions put them into this.actions:
\* returnActions[key] = ... runs once for each of Object.keys(actions), in that
\* order, and adds a key each time but for '__proto__'
InsertionOrder ==
    SelectSeq(Keys(MergedActions(options)), LAMBDA key : key # "__proto__")

C7_ResourceActionsFiltered ==
    Done("resourceActions")
        => /\ Returned(result)
           /\ KeySet(actions) = Range(InsertionOrder)
           /\ result.value =
                 SelectSeq([i \in 1..Len(InsertionOrder) |-> Get(actions, InsertionOrder[i])],
                           LAMBDA a : Qualifies(a, call.currentAdmin))
           /\ \A j \in 1..Len(result.value) :
                 /\ result.value[j].action.actionType # Some("record")
                 /\ Holds(result.value[j].action.isAccessible, call.currentAdmin, None)

C7_Witness ==
    /\ Done("resourceActions")
    /\ Len(result.value) >= 2
    /\ Has(actions, "7")
    /\ result.value[1] = Get(actions, "7")
    /\ result.value[2] = Get(actions, "new")
    /\ \E i \in 1..Len(actions) :
          /\ actions[i].value.action.actionType = Some("resource")
          /\ Holds(actions[i].value.action.isVisible, call.currentAdmin, None)
          /\ ~Holds(actions[i].value.action.isAccessible, call.currentAdmin, None)
          /\ actions[i].value \notin Range(result.value)

----------------------------------------------------------------------------
(* C8: titleProperty() returns the first property in map order whose        *)
(* isTitle() is true, and the first property of the map when none is; when  *)
(* the map holds a property the result is a property of the map, never      *)
(* undefined.                                                               *)
TitleIndexes == {i \in 1..Len(properties) : isTitle(properties[i].value)}

\* the j-th least element of a set of numbers
Nth(S, j) == CHOOSE i \in S : Cardinality({k \in S : k <= i}) = j

C8_TitleIsFirstTitleOrFirst ==
    (Done("titleProperty") /\ Len(properties) > 0)
        => /\ Returned(result)
           /\ IsSome(result.value)
           /\ \E i \in 1..Len(properties) : Val(result.value) = properties[i].value
           /\ IF TitleIndexes # {}
              THEN Val(result.value) = properties[Nth(TitleIndexes, 1)].value
              ELSE Val(result.value) = properties[1].value

C8_Witness ==
    /\ Done("titleProperty")
    /\ Cardinality(TitleIndexes) >= 2
    /\ 1 \notin TitleIndexes
    /\ IsSome(result.value)
    /\ isTitle(Val(result.value))

----------------------------------------------------------------------------
(* C9: no sequence of queries changes the properties map, the actions map   *)
(* or the options: at every point of the sequence the three are what        *)
(* construction made them, and a query that is called again with the        *)
(* arguments of an earlier query of the sequence has the outcome the        *)
(* earlier one had, whatever was called in between.                         *)
SameCall(c1, c2) == c1.op = c2.op /\ c1 = c2

C9_QueriesChangeNothing ==
    /\ options = constructed.options
    /\ properties = constructed.properties
    /\ actions = constructed.actions
    /\ \A i, j \in 1..Len(journal) :
          SameCall(journal[i].call, journal[j].call)
              => journal[i].result = journal[j].result
    /\ pc = "returned"
          => \A i \in 1..Len(journal) :
                SameCall(journal[i].call, call) => journal[i].result = result

\* getProperties, then another query of another kind that threw, then the
\* first one again; the first one sorted and cut the properties
C9_Witness ==
    /\ Len(journal) = 2
    /\ journal[1].call.op = "getProperties"
    /\ journal[1].call.max > 1
    /\ Returned(journal[1].result)
    /\ Len(journal[1].result.value) = journal[1].call.max
    /\ position(journal[1].result.value[1]) < position(journal[1].result.value[2])
    /\ journal[2].call.op # "getProperties"
    /\ Threw(journal[2].result)
    /\ pc = "returned"
    /\ call = journal[1].call
    /\ result = journal[1].result

----------------------------------------------------------------------------
(* C10: an ordering override that is present and empty counts as absent:    *)
(* getProperties({where, max}) returns the visible properties sorted by     *)
(* position, cut to max when max is not 0, not an empty sequence.           *)
(* This fails as to the cut: a negative max leaves all but the last -max    *)
(* entries.                                                                 *)
C10_EmptyOverrideIsAbsent ==
    (DoneGetProperties /\ CallOverride = Some(<<>>))
        => /\ Returned(result)
           /\ IsVisibleSortedCut(result.value, CallWhere,
                                 FirstMax(CallMax, Cardinality(VisibleIn(CallWhere))),
                                 FALSE)
           /\ (VisibleIn(CallWhere) # {} => result.value # <<>>)

(* C10 as amended: an ordering override that is present and empty counts as *)
(* absent: getProperties({where, max}) returns what it returns without an   *)
(* override, the visible properties in ascending order of position, cut as  *)
(* slice(0, max) cuts them when the integer max is not 0 (to the first max  *)
(* entries when positive, to all but the last -max when negative), and so   *)
(* not the empty sequence of the override unless the cut leaves nothing.    *)
C10_EmptyOverrideSorted ==
    (DoneGetProperties /\ CallOverride = Some(<<>>))
        => /\ Returned(result)
           /\ IsVisibleSortedCut(result.value, CallWhere,
                                 SliceLength(CallMax, Cardinality(VisibleIn(CallWhere))),
                                 FALSE)
           /\ result = getProperties([Self EXCEPT !.options =
                                         WithOverride(options, {}, <<>>)],
                                     CallWhere, CallMax)

C10_Witness ==
    /\ Done("getProperties")
    /\ CallOverride = Some(<<>>)
    /\ engine = "QuickSort"
    /\ Returned(result)
    /\ Len(result.value) >= 2
    /\ call.max # 0
    /\ Len(result.value) < Cardinality(VisibleIn(call.where))

====
